---- MODULE Spec2Model ----
(***************************************************************************)
(* A model of gedcompy: the GEDCOM line grammar and its formatting, the    *)
(* level-stack parser, the element tree, the GedcomFile document (pointer  *)
(* table, id allocation, header/trailer) and the typed views (Note,        *)
(* Individual).                                                            *)
(*                                                                         *)
(* Text is modelled character by character: a Python str is a sequence of  *)
(* one-character strings, so that stripping, matching and formatting are   *)
(* computed as the code computes them.  Python's None is the value None    *)
(* for strings and NoLevel for the integer level, 0 for "no element".      *)
(* Elements live in a heap, the sequence elems; an element is named by its *)
(* index in it.                                                            *)
(***************************************************************************)
EXTENDS Integers, Sequences, FiniteSets, TLC

VARIABLES
    lines,          \* the input of __parse: a sequence of raw lines
    linenum,        \* 1-based position of the next line __parse reads
    level_to_obj,   \* __parse's level_to_obj: level -> element
    elems,          \* the heap of Element objects
    root_elements,  \* GedcomFile.root_elements
    pointers,       \* GedcomFile.pointers: id -> element
    next_free_id,   \* GedcomFile.next_free_id
    pc,             \* where the caller is: "parsing", "done", "failed", ...
    result,         \* the last call: its name, what it raised, what it returned
    allocated       \* history: the ids add_element has allocated, in order

vars == <<lines, linenum, level_to_obj, elems, root_elements, pointers,
          next_free_id, pc, result, allocated>>

\* __parse's input and locals.
parseVars == <<lines, linenum, level_to_obj>>

\* ------------------------------------------------------------------ bounds

\* The number of lines __parse is fed.
MaxLines == 4

\* The number of elements the caller creates.
MaxElems == 3

\* ------------------------------------------------------------ Python values

\* None where a str is expected (a sequence no str equals: its one element
\* is not a single character).
None == <<"None">>

\* None where the integer level is expected.
NoLevel == -1

\* None where an Element is expected.
NoElement == 0

\* Python truthiness of an optional str: None and '' are false.
Truthy(s) == s /= None /\ s /= <<>>

\* ----------------------------------------------------------------- characters

Digits == {"0", "1", "2", "3", "4", "5", "6", "7", "8", "9"}

Upper == {"A", "B", "C", "D", "E", "F", "G", "H", "I", "J", "K", "L", "M",
          "N", "O", "P", "Q", "R", "S", "T", "U", "V", "W", "X", "Y", "Z"}

Lower == {"a", "b", "c", "d", "e", "f", "g", "h", "i", "j", "k", "l", "m",
          "n", "o", "p", "q", "r", "s", "t", "u", "v", "w", "x", "y", "z"}

\* [_A-Z0-9] of line_format's tag group.
TagChars == Upper \cup Digits \cup {"_"}

\* [a-zA-Z0-9] of line_format's id group.
IdChars == Upper \cup Lower \cup Digits

\* What str.strip() removes (the members the model's texts can hold).
Whitespace == {" ", "\t"}

UpperSeq == <<"A", "B", "C", "D", "E", "F", "G", "H", "I", "J", "K", "L", "M",
             "N", "O", "P", "Q", "R", "S", "T", "U", "V", "W", "X", "Y", "Z">>

LowerSeq == <<"a", "b", "c", "d", "e", "f", "g", "h", "i", "j", "k", "l", "m",
             "n", "o", "p", "q", "r", "s", "t", "u", "v", "w", "x", "y", "z">>

\* str.lower() and str.upper(), character by character.
LowerStr(s) ==
    [i \in 1..Len(s) |->
        IF s[i] \in Upper
        THEN LowerSeq[CHOOSE k \in 1..Len(UpperSeq) : UpperSeq[k] = s[i]]
        ELSE s[i]]

UpperStr(s) ==
    [i \in 1..Len(s) |->
        IF s[i] \in Lower
        THEN UpperSeq[CHOOSE k \in 1..Len(LowerSeq) : LowerSeq[k] = s[i]]
        ELSE s[i]]

\* Length of the longest prefix of s made of characters of S (a greedy S*).
PrefixLen(s, S) ==
    IF \A i \in 1..Len(s) : s[i] \in S
    THEN Len(s)
    ELSE (CHOOSE i \in 1..Len(s) :
              s[i] \notin S /\ \A j \in 1..(i - 1) : s[j] \in S) - 1

\* Length of the longest suffix of s made of characters of S.
SuffixLen(s, S) ==
    IF \A i \in 1..Len(s) : s[i] \in S
    THEN Len(s)
    ELSE Len(s) - (CHOOSE i \in 1..Len(s) :
              s[i] \notin S /\ \A j \in (i + 1)..Len(s) : s[j] \in S)

\* str.strip()
Strip(s) ==
    IF \A i \in 1..Len(s) : s[i] \in Whitespace
    THEN <<>>
    ELSE SubSeq(s, PrefixLen(s, Whitespace) + 1, Len(s) - SuffixLen(s, Whitespace))

\* int(str) on a run of decimal digits.
DigitVal(c) ==
    CASE c = "0" -> 0 [] c = "1" -> 1 [] c = "2" -> 2 [] c = "3" -> 3
      [] c = "4" -> 4 [] c = "5" -> 5 [] c = "6" -> 6 [] c = "7" -> 7
      [] c = "8" -> 8 [] c = "9" -> 9

RECURSIVE ParseInt(_)
ParseInt(s) ==
    IF s = <<>> THEN 0
    ELSE 10 * ParseInt(SubSeq(s, 1, Len(s) - 1)) + DigitVal(s[Len(s)])

\* str(int) for a non-negative int.
DigitChar(d) ==
    CASE d = 0 -> "0" [] d = 1 -> "1" [] d = 2 -> "2" [] d = 3 -> "3"
      [] d = 4 -> "4" [] d = 5 -> "5" [] d = 6 -> "6" [] d = 7 -> "7"
      [] d = 8 -> "8" [] d = 9 -> "9"

RECURSIVE IntToStr(_)
IntToStr(n) ==
    IF n < 10 THEN <<DigitChar(n)>>
    ELSE IntToStr(n \div 10) \o <<DigitChar(n % 10)>>

\* "{level}".format(level=...): str(None) is 'None'.
LevelToStr(level) ==
    IF level = NoLevel THEN <<"N", "o", "n", "e">> ELSE IntToStr(level)

\* ----------------------------------------------------------------- LineCodec

\* line_format.match(line): the groups of
\*   ^(?P<level>[0-9]+) ((?P<id>@[a-zA-Z0-9]+@) )?(?P<tag>[_A-Z0-9]+)( (?P<value>.*))?$
\* Every quantifier is greedy and is followed by a character outside its
\* class, so the match, when there is one, is the greedy one.
LineMatch(line) ==
    LET n     == PrefixLen(line, Digits)
        r1    == SubSeq(line, n + 2, Len(line))
        m     == IF r1 /= <<>> /\ r1[1] = "@" THEN PrefixLen(Tail(r1), IdChars) ELSE 0
        hasId == /\ r1 /= <<>> /\ r1[1] = "@"
                 /\ m >= 1 /\ Len(r1) >= m + 3
                 /\ r1[m + 2] = "@" /\ r1[m + 3] = " "
        r2    == IF hasId THEN SubSeq(r1, m + 4, Len(r1)) ELSE r1
        t     == PrefixLen(r2, TagChars)
        ok    == /\ n >= 1 /\ Len(line) >= n + 1 /\ line[n + 1] = " "
                 /\ t >= 1
                 /\ (Len(r2) = t \/ r2[t + 1] = " ")
    IN  IF ok
        THEN [ok    |-> TRUE,
              level |-> SubSeq(line, 1, n),
              id    |-> IF hasId THEN SubSeq(r1, 1, m + 2) ELSE None,
              tag   |-> SubSeq(r2, 1, t),
              value |-> IF Len(r2) = t THEN None ELSE SubSeq(r2, t + 2, Len(r2))]
        ELSE [ok |-> FALSE, level |-> <<>>, id |-> None, tag |-> <<>>, value |-> None]

\* FormatLine with the value trimmed before it is written.
FormatLineTrimmed(el) ==
    LevelToStr(el.level)
        \o (IF Truthy(el.id) THEN <<" ">> \o el.id ELSE <<>>)
        \o <<" ">> \o el.tag
        \o (IF Truthy(el.value) THEN <<" ">> \o Strip(el.value) ELSE <<>>)

\* The line Element.gedcom_lines formats for one element:
\*   u"{level}{id} {tag}{value}" with id and value left out when falsy.
FormatLine(el) ==
    LevelToStr(el.level)
        \o (IF Truthy(el.id) THEN <<" ">> \o el.id ELSE <<>>)
        \o <<" ">> \o el.tag
        \o (IF Truthy(el.value) THEN <<" ">> \o el.value ELSE <<>>)

\* ---------------------------------------------------------------------- tags

HEAD == <<"H", "E", "A", "D">>
TRLR == <<"T", "R", "L", "R">>
SOUR == <<"S", "O", "U", "R">>
NAME == <<"N", "A", "M", "E">>
VERS == <<"V", "E", "R", "S">>
CHAR == <<"C", "H", "A", "R">>
GEDC == <<"G", "E", "D", "C">>
FORM == <<"F", "O", "R", "M">>
INDI == <<"I", "N", "D", "I">>
FAM  == <<"F", "A", "M">>
HUSB == <<"H", "U", "S", "B">>
WIFE == <<"W", "I", "F", "E">>
BIRT == <<"B", "I", "R", "T">>
DEAT == <<"D", "E", "A", "T">>
MARR == <<"M", "A", "R", "R">>
NOTE == <<"N", "O", "T", "E">>
CONT == <<"C", "O", "N", "T">>
CONC == <<"C", "O", "N", "C">>
TYPE == <<"T", "Y", "P", "E">>
GIVN == <<"G", "I", "V", "N">>
SURN == <<"S", "U", "R", "N">>
SEX  == <<"S", "E", "X">>
FAMC == <<"F", "A", "M", "C">>
CHIL == <<"C", "H", "I", "L">>

\* ------------------------------------------------------------------ TagRegistry

\* class_for_tag: tags_to_classes.get(tag, Element), with the table the
\* @register_tag decorators fill at import.
ClassForTag(tag) ==
    CASE tag = INDI -> "Individual"
      [] tag = FAM  -> "Family"
      [] tag = HUSB -> "Husband"
      [] tag = WIFE -> "Wife"
      [] tag = BIRT -> "Birth"
      [] tag = DEAT -> "Death"
      [] tag = MARR -> "Marriage"
      [] tag = NOTE -> "Note"
      [] OTHER      -> "Element"

\* ---------------------------------------------------------------------- Element

\* Element.add_child_element on the heap h: parent p, child c.
add_child_element(h, p, c) ==
    [h EXCEPT ![c].parent = p,
              ![c].parent_id = h[p].id,
              ![c].gedcom_file = h[p].gedcom_file,
              ![p].child_elements = Append(@, c)]

\* Element.__init__ through class_for_tag(tag)(...): the heap with the new
\* element at index Len(h) + 1, attached to parent when one is given.
NewElement(h, level, tag, value, id, parent, gedcom_file) ==
    LET e  == Len(h) + 1
        h1 == Append(h, [level          |-> level,
                         tag            |-> tag,
                         value          |-> value,
                         child_elements |-> <<>>,
                         parent_element |-> parent,
                         parent         |-> NoElement,
                         id             |-> id,
                         parent_id      |-> None,
                         gedcom_file    |-> gedcom_file,
                         klass          |-> ClassForTag(tag)])
    IN  IF parent /= NoElement THEN add_child_element(h1, parent, e) ELSE h1

\* LevelChildren without the recursive call: the children are levelled,
\* their own children are not.
LevelChildrenFlat(h, e, i) ==
    [x \in DOMAIN h |->
        IF \E j \in i..Len(h[e].child_elements) : h[e].child_elements[j] = x
        THEN [h[x] EXCEPT !.level = h[e].level + 1, !.gedcom_file = h[e].gedcom_file]
        ELSE h[x]]

\* The loop of Element.set_levels_downward on an element whose level is an
\* integer: children from the i-th on, depth first.
RECURSIVE LevelChildren(_, _, _)
LevelChildren(h, e, i) ==
    IF i > Len(h[e].child_elements) THEN h
    ELSE LET c  == h[e].child_elements[i]
             h1 == [h EXCEPT ![c].level = h[e].level + 1,
                             ![c].gedcom_file = h[e].gedcom_file]
         IN  LevelChildren(LevelChildren(h1, c, 1), e, i + 1)

\* Element.set_levels_downward: TypeError when the element's own level is
\* not an integer, else the heap with the subtree re-levelled.
set_levels_downward(h, e) ==
    IF h[e].level = NoLevel
    THEN [raised |-> "TypeError", heap |-> h]
    ELSE [raised |-> "", heap |-> LevelChildren(h, e, 1)]

\* Element.get_list: the children with this tag, in order.
get_list(h, e, tag) ==
    SelectSeq(h[e].child_elements, LAMBDA c : h[c].tag = tag)

\* Element.__contains__
Contains(h, e, tag) == \E i \in 1..Len(h[e].child_elements) : h[h[e].child_elements[i]].tag = tag

\* ------------------------------------------------------------------ GedcomFile

\* dict assignment d[k] = v
MapPut(f, k, v) == [x \in (DOMAIN f) \cup {k} |-> IF x = k THEN v ELSE f[x]]

\* "@{prefix}{num}@".format(prefix=prefix, num=num)
PotentialId(prefix, num) == <<"@", prefix>> \o IntToStr(num) \o <<"@">>

\* range(1, 1000000) of the id scan stops before this step.
ScanEnd == 1000000

\* The for/else of add_element over range(1, end) from step `step` on, with
\* next_free_id = n: the id found (or none, when the range runs out) and
\* next_free_id after.
RECURSIVE ScanIdWithin(_, _, _, _, _)
ScanIdWithin(ptrs, prefix, n, step, end) ==
    IF step >= end
    THEN [found |-> FALSE, id |-> None, next |-> n]
    ELSE IF PotentialId(prefix, n) \in DOMAIN ptrs
         THEN ScanIdWithin(ptrs, prefix, n + 1, step + 1, end)
         ELSE [found |-> TRUE, id |-> PotentialId(prefix, n), next |-> n + 1]

\* ScanId without the test for a taken id.
ScanIdNoSkip(ptrs, prefix, n, step) ==
    [found |-> TRUE, id |-> PotentialId(prefix, n), next |-> n + 1]

\* The for/else of add_element from step `step` on: range(1, 1000000).
ScanId(ptrs, prefix, n, step) == ScanIdWithin(ptrs, prefix, n, step, ScanEnd)

\* The last three statements of add_element: the back-reference, the pointer
\* table entry when the id is truthy, the root sequence when the level is 0.
Register(d, e) ==
    LET h == [d.elems EXCEPT ![e].gedcom_file = TRUE]
    IN  [d EXCEPT !.elems = h,
                  !.pointers = IF Truthy(h[e].id) THEN MapPut(@, h[e].id, e) ELSE @,
                  !.root_elements = IF h[e].level = 0 THEN Append(@, e) ELSE @]

\* The id allocation of add_element on the element e, whose level has been
\* set: the scan's outcome `scan` decides between an id and the exception.
Allocate(d, e, scan) ==
    IF scan.found
    THEN Register([d EXCEPT !.elems[e].id = scan.id,
                            !.next_free_id = scan.next,
                            !.new_id = scan.id], e)
    ELSE [d EXCEPT !.next_free_id = scan.next, !.raised = "Exception"]

\* The prefix add_element chooses for the new id.
Prefix(klass) == IF klass = "Individual" THEN "I" ELSE "F"

\* GedcomFile.add_element on the document d (a record of the document's
\* fields and the heap); d.raised names the exception, "" when none, and
\* d.new_id the id the call assigned to the element, None when none.
add_element(d, e) ==
    IF d.elems[e].level = NoLevel
    THEN IF d.elems[e].klass \notin {"Individual", "Family"}
         THEN [d EXCEPT !.raised = "TypeError"]
         ELSE Allocate(
                  [d EXCEPT !.elems =
                      set_levels_downward([d.elems EXCEPT ![e].level = 0], e).heap],
                  e,
                  ScanId(d.pointers, Prefix(d.elems[e].klass), d.next_free_id, 1))
    ELSE Register(d, e)

\* GedcomFile.add_element with the end of the scan's range a parameter:
\* add_element is add_element_within(d, e, ScanEnd).
add_element_within(d, e, end) ==
    IF d.elems[e].level = NoLevel
    THEN IF d.elems[e].klass \notin {"Individual", "Family"}
         THEN [d EXCEPT !.raised = "TypeError"]
         ELSE Allocate(
                  [d EXCEPT !.elems =
                      set_levels_downward([d.elems EXCEPT ![e].level = 0], e).heap],
                  e,
                  ScanIdWithin(d.pointers, Prefix(d.elems[e].klass), d.next_free_id, 1, end))
    ELSE Register(d, e)

\* GedcomFile.element(tag, level=..., value=...): a new detached element of
\* this file.
element(h, tag, level, value) == NewElement(h, level, tag, value, None, NoElement, TRUE)

\* __version__
Version == <<"0", ".", "1", ".", "0">>

\* The header subtree ensure_header_trailer builds on the heap h, whose
\* elements take the indices k + 1 (HEAD) to k + 8.
HeaderHeap(h, k) ==
    LET head == k + 1
        sour == k + 2
        gedc == k + 6
        a1 == element(h, HEAD, 0, <<>>)
        a2 == element(a1, SOUR, NoLevel, None)
        a3 == add_child_element(
                  element(a2, NAME, NoLevel, <<"g", "e", "d", "c", "o", "m", "p", "y">>),
                  sour, k + 3)
        a4 == add_child_element(element(a3, VERS, NoLevel, Version), sour, k + 4)
        a5 == add_child_element(a4, head, sour)
        a6 == add_child_element(
                  element(a5, CHAR, NoLevel, <<"U", "N", "I", "C", "O", "D", "E">>),
                  head, k + 5)
        a7 == element(a6, GEDC, NoLevel, None)
        a8 == add_child_element(element(a7, VERS, NoLevel, <<"5", ".", "5">>),
                                gedc, k + 7)
        a9 == add_child_element(
                  element(a8, FORM, NoLevel,
                          <<"L", "I", "N", "E", "A", "G", "E", "-",
                            "L", "I", "N", "K", "E", "D">>),
                  gedc, k + 8)
        a10 == add_child_element(a9, head, gedc)
    IN  set_levels_downward(a10, head).heap

\* The first if of ensure_header_trailer: a header is inserted before the
\* roots unless the first root's tag is HEAD.
EnsureHeader(d) ==
    IF Len(d.root_elements) = 0 \/ d.elems[d.root_elements[1]].tag /= HEAD
    THEN [d EXCEPT !.elems = HeaderHeap(@, Len(@)),
                   !.root_elements = <<Len(d.elems) + 1>> \o @]
    ELSE d

\* EnsureTrailer looking at the first root instead of the last.
EnsureTrailerFirst(d) ==
    IF Len(d.root_elements) = 0 \/ d.elems[d.root_elements[1]].tag /= TRLR
    THEN [d EXCEPT !.elems = element(@, TRLR, 0, <<>>),
                   !.root_elements = Append(@, Len(d.elems) + 1)]
    ELSE d

\* The second if of ensure_header_trailer: a trailer is appended unless the
\* last root's tag is TRLR.
EnsureTrailer(d) ==
    IF Len(d.root_elements) = 0
           \/ d.elems[d.root_elements[Len(d.root_elements)]].tag /= TRLR
    THEN [d EXCEPT !.elems = element(@, TRLR, 0, <<>>),
                   !.root_elements = Append(@, Len(d.elems) + 1)]
    ELSE d

\* GedcomFile.ensure_header_trailer
ensure_header_trailer(d) == EnsureTrailer(EnsureHeader(d))

\* GedcomFile.ensure_levels: roots from the i-th on.
RECURSIVE LevelRoots(_, _, _)
LevelRoots(h, roots, i) ==
    IF i > Len(roots) THEN h
    ELSE LevelRoots(
             set_levels_downward([h EXCEPT ![roots[i]].level = 0], roots[i]).heap,
             roots, i + 1)

ensure_levels(d) == [d EXCEPT !.elems = LevelRoots(d.elems, d.root_elements, 1)]

\* Element.gedcom_lines: the element's line, then its children's, depth first.
RECURSIVE ElementLines(_, _), ChildrenLines(_, _, _)
ElementLines(h, e) == <<FormatLine(h[e])>> \o ChildrenLines(h, h[e].child_elements, 1)

ChildrenLines(h, es, i) ==
    IF i > Len(es) THEN <<>>
    ELSE ElementLines(h, es[i]) \o ChildrenLines(h, es, i + 1)

\* The lines GedcomFile.gedcom_lines yields for the roots of d.
DocLines(d) == ChildrenLines(d.elems, d.root_elements, 1)

\* GedcomFile.gedcom_lines, iterated to the end: the document as
\* ensure_header_trailer and ensure_levels leave it; DocLines of it are the
\* lines yielded.
gedcom_lines(d) == ensure_levels(ensure_header_trailer(d))

\* ---------------------------------------------------------------------- Parser

\* dict((l, obj) for l, obj in level_to_obj.items() if l < level)
Below(f, level) == [l \in {k \in DOMAIN f : k < level} |-> f[l]]

\* GedcomFile(): the fields of a new document, with __parse's locals.
NewFile ==
    [elems |-> <<>>, root_elements |-> <<>>, pointers |-> <<>>, next_free_id |-> 1,
     level_to_obj |-> <<>>, raised |-> "", new_id |-> None]

\* The loop body of __parse from line_to_element on: the element is
\* created under `parent`, recorded in level_to_obj (l2o, already filtered)
\* and added to the file.
ParseElement(st, m, level, l2o, parent) ==
    add_element(
        [st EXCEPT !.elems = [NewElement(st.elems, level, m.tag, m.value, m.id,
                                         parent, FALSE)
                                 EXCEPT ![Len(st.elems) + 1].gedcom_file = TRUE],
                   !.level_to_obj = MapPut(l2o, level, Len(st.elems) + 1)],
        Len(st.elems) + 1)

\* The loop body of __parse once the level is known: level_to_obj[level - 1]
\* raises KeyError when the key is missing.
ParseLevel(st, m, level, l2o) ==
    IF level = 0
    THEN ParseElement(st, m, level, l2o, NoElement)
    ELSE IF (level - 1) \notin DOMAIN l2o
         THEN [st EXCEPT !.level_to_obj = l2o, !.raised = "KeyError"]
         ELSE ParseElement(st, m, level, l2o, l2o[level - 1])

\* The loop body of __parse on a non-blank stripped line, m its match.
ParseMatch(st, m, level) ==
    IF ~m.ok
    THEN [st EXCEPT !.raised = "NotImplementedError"]
    ELSE ParseLevel(st, m, level,
                    IF level = 0 THEN st.level_to_obj ELSE Below(st.level_to_obj, level))

\* One iteration of the loop of __parse on the raw line `raw`.
ParseLine(st, raw) ==
    IF Strip(raw) = <<>>
    THEN st
    ELSE ParseMatch(st, LineMatch(Strip(raw)), ParseInt(LineMatch(Strip(raw)).level))

\* __parse(lines_iter) from line i on: the loop runs until a line raises.
RECURSIVE ParseFrom(_, _, _)
ParseFrom(st, ls, i) ==
    IF i > Len(ls) \/ st.raised /= "" THEN st
    ELSE ParseFrom(ParseLine(st, ls[i]), ls, i + 1)

\* __parse(lines_iter)
Parse(ls) == ParseFrom(NewFile, ls, 1)

\* ------------------------------------------------------------------ typed views

\* What a call returns: the exception it raised ("" when none) and its value.
Returned(val) == [raised |-> "", val |-> val]

Raised(exc) == [raised |-> exc, val |-> <<>>]

\* Element.__getitem__ given the children with the key's tag: IndexError
\* when there is none, the child when there is one, the list of them when
\* there are more.
GetItemOf(children) ==
    IF Len(children) = 0 THEN Raised("IndexError")
    ELSE IF Len(children) = 1
         THEN Returned([kind |-> "element", e |-> children[1], es |-> <<>>])
         ELSE Returned([kind |-> "list", e |-> NoElement, es |-> children])

\* Element.__getitem__
getitem(h, e, key) == GetItemOf(get_list(h, e, key))

\* self[key].value, as the views write it: a list has no attribute value.
ItemValueOf(h, item) ==
    IF item.raised /= "" THEN item
    ELSE IF item.val.kind = "list" THEN Raised("AttributeError")
         ELSE Returned(h[item.val.e].value)

ItemValue(h, e, key) == ItemValueOf(h, getitem(h, e, key))

\* value or ''
OrEmpty(v) == IF Truthy(v) THEN v ELSE <<>>

\* The loop of Note.full_text from the i-th child on, acc the text so far.
RECURSIVE FullTextFrom(_, _, _, _)
FullTextFrom(h, es, i, acc) ==
    IF i > Len(es) THEN Returned(acc)
    ELSE IF h[es[i]].tag = CONT
         THEN FullTextFrom(h, es, i + 1, acc \o <<"\n">> \o OrEmpty(h[es[i]].value))
         ELSE IF h[es[i]].tag = CONC
              THEN FullTextFrom(h, es, i + 1, acc \o OrEmpty(h[es[i]].value))
              ELSE Raised("ValueError")

\* Note.full_text: `"" + self.value or ''` is `("" + self.value) or ''`, and
\* "" + None raises TypeError.
full_text(h, e) ==
    IF h[e].value = None THEN Raised("TypeError")
    ELSE FullTextFrom(h, h[e].child_elements, 1, OrEmpty(<<>> \o h[e].value))

\* str.find("/") on a str that holds a slash, 1-based.
FirstSlash(s) ==
    CHOOSE i \in 1..Len(s) : s[i] = "/" /\ \A j \in 1..(i - 1) : s[j] /= "/"

\* str.split("/")
RECURSIVE SplitSlash(_)
SplitSlash(s) ==
    IF \A i \in 1..Len(s) : s[i] /= "/" THEN <<s>>
    ELSE <<SubSeq(s, 1, FirstSlash(s) - 1)>>
             \o SplitSlash(SubSeq(s, FirstSlash(s) + 1, Len(s)))

\* first, last, dud = value.split("/"), then both stripped: ValueError unless
\* there are three parts.
SplitName(parts) ==
    IF Len(parts) /= 3 THEN Raised("ValueError")
    ELSE Returned(<<Strip(parts[1]), Strip(parts[2])>>)

\* first = name['GIVN'].value; last = name['SURN'].value
GivenSurname(givn, surn) ==
    IF givn.raised /= "" THEN givn
    ELSE IF surn.raised /= "" THEN surn
         ELSE Returned(<<givn.val, surn.val>>)

\* The (first, last) pair Individual.name and Individual.aka take from one
\* NAME element.
NameParts(h, name) ==
    IF h[name].value = <<>> \/ h[name].value = None
    THEN GivenSurname(ItemValue(h, name, GIVN), ItemValue(h, name, SURN))
    ELSE SplitName(SplitSlash(h[name].value))

\* 'TYPE' in name and name['TYPE'].value.lower() == 'aka', given
\* name['TYPE'].value: None has no attribute lower.
IsAkaOf(type) ==
    IF type.raised /= "" THEN type
    ELSE IF type.val = None THEN Raised("AttributeError")
         ELSE Returned(LowerStr(type.val) = <<"a", "k", "a">>)

IsAka(h, name) ==
    IF ~Contains(h, name, TYPE) THEN Returned(FALSE)
    ELSE IsAkaOf(ItemValue(h, name, TYPE))

\* The loop of Individual.aka over the list of NAME children, from the i-th.
RECURSIVE AkaFrom(_, _, _, _)
AkaFrom(h, names, i, acc) ==
    IF i > Len(names) THEN Returned(acc)
    ELSE IF IsAka(h, names[i]).raised /= "" THEN IsAka(h, names[i])
         ELSE IF ~IsAka(h, names[i]).val THEN AkaFrom(h, names, i + 1, acc)
              ELSE IF NameParts(h, names[i]).raised /= "" THEN NameParts(h, names[i])
                   ELSE AkaFrom(h, names, i + 1, Append(acc, NameParts(h, names[i]).val))

\* Individual.aka given self['NAME']: the loop runs only when that is a list.
AkaOf(h, name_tag) ==
    IF name_tag.raised /= "" THEN name_tag
    ELSE IF name_tag.val.kind = "list" THEN AkaFrom(h, name_tag.val.es, 1, <<>>)
         ELSE Returned(<<>>)

\* Individual.aka
aka(h, e) == AkaOf(h, getitem(h, e, NAME))

\* Family.partners: the HUSB children, then the WIFE children.
partners(h, f) == get_list(h, f, HUSB) \o get_list(h, f, WIFE)

\* Element.get_by_id and Spouse.as_individual: self.gedcom_file[id], a
\* KeyError when the id is not in the pointer table (None[id] is a TypeError).
get_by_id(d, e, id) ==
    IF ~d.elems[e].gedcom_file THEN Raised("TypeError")
    ELSE IF id \notin DOMAIN d.pointers THEN Raised("KeyError")
         ELSE Returned(d.pointers[id])

\* [p.as_individual() for p in parents], from the i-th partner on.
RECURSIVE AsIndividuals(_, _, _, _)
AsIndividuals(d, ps, i, acc) ==
    IF i > Len(ps) THEN Returned(acc)
    ELSE IF get_by_id(d, ps[i], d.elems[ps[i]].value).raised /= ""
         THEN get_by_id(d, ps[i], d.elems[ps[i]].value)
         ELSE AsIndividuals(d, ps, i + 1,
                            Append(acc, get_by_id(d, ps[i], d.elems[ps[i]].value).val))

\* Individual.parents once the family is looked up: partners is a property
\* of Family alone.
PartnersOf(d, family) ==
    IF family.raised /= "" THEN family
    ELSE IF d.elems[family.val].klass /= "Family" THEN Raised("AttributeError")
         ELSE AsIndividuals(d, partners(d.elems, family.val), 1, <<>>)

\* Individual.parents given self['FAMC'].value
ParentsOf(d, e, famc) ==
    IF famc.raised /= "" THEN famc
    ELSE PartnersOf(d, get_by_id(d, e, famc.val))

\* Individual.parents
parents(d, e) ==
    IF Contains(d.elems, e, FAMC)
    THEN ParentsOf(d, e, ItemValue(d.elems, e, FAMC))
    ELSE Returned(<<>>)

\* self.sex.lower() == letter, given self['SEX'].value
IsSexOf(sex, letter) ==
    IF sex.raised /= "" THEN sex
    ELSE IF sex.val = None THEN Raised("AttributeError")
         ELSE Returned(LowerStr(sex.val) = <<letter>>)

\* Individual.is_male (letter "m") and is_female (letter "f"): sex is a
\* property of Individual alone.
IsSex(h, p, letter) ==
    IF h[p].klass /= "Individual" THEN Raised("AttributeError")
    ELSE IsSexOf(ItemValue(h, p, SEX), letter)

\* [p for p in self.parents if p.is_male], from the i-th parent on.
RECURSIVE FilterSex(_, _, _, _, _)
FilterSex(h, ps, i, letter, acc) ==
    IF i > Len(ps) THEN Returned(acc)
    ELSE IF IsSex(h, ps[i], letter).raised /= "" THEN IsSex(h, ps[i], letter)
         ELSE FilterSex(h, ps, i + 1, letter,
                        IF IsSex(h, ps[i], letter).val THEN Append(acc, ps[i]) ELSE acc)

\* The if/elif chain of father and mother on the filtered parents.
OneParent(matches) ==
    IF matches.raised /= "" THEN matches
    ELSE IF Len(matches.val) = 0 THEN Returned(NoElement)
         ELSE IF Len(matches.val) = 1 THEN Returned(matches.val[1])
              ELSE Raised("NotImplementedError")

\* The parent of the given sex, given self.parents.
ParentOfSex(h, ps, letter) ==
    IF ps.raised /= "" THEN ps
    ELSE OneParent(FilterSex(h, ps.val, 1, letter, <<>>))

\* Individual.father
father(d, e) == ParentOfSex(d.elems, parents(d, e), "m")

\* Individual.mother
mother(d, e) == ParentOfSex(d.elems, parents(d, e), "f")

\* The except IndexError branch of set_sex: a new SEX element of this file,
\* its level unset, added as the last child of e.
AddSex(d, e, sex) ==
    IF ~d.elems[e].gedcom_file THEN [d EXCEPT !.raised = "AttributeError"]
    ELSE [d EXCEPT !.elems =
             add_child_element(NewElement(@, NoLevel, SEX, sex, None, NoElement, TRUE),
                               e, Len(@) + 1)]

\* The try block of set_sex given self['SEX'] and the upper-cased sex: the
\* value of the one SEX child is overwritten; a list has no attribute value.
PutSex(d, e, sex, item) ==
    IF item.raised = "IndexError" THEN AddSex(d, e, sex)
    ELSE IF item.val.kind = "list" THEN [d EXCEPT !.raised = "AttributeError"]
         ELSE [d EXCEPT !.elems[item.val.e].value = sex]

\* Individual.set_sex
set_sex(d, e, sex) ==
    IF UpperStr(sex) \notin {<<"M">>, <<"F">>}
    THEN [d EXCEPT !.raised = "TypeError"]
    ELSE PutSex(d, e, UpperStr(sex), getitem(d.elems, e, SEX))

\* ------------------------------------------------------------------- the state

\* The document, and __parse's locals, as the operators above take them.
Doc ==
    [elems |-> elems, root_elements |-> root_elements, pointers |-> pointers,
     next_free_id |-> next_free_id, level_to_obj |-> level_to_obj, raised |-> "",
     new_id |-> None]

Store(d) ==
    /\ elems' = d.elems
    /\ root_elements' = d.root_elements
    /\ pointers' = d.pointers
    /\ next_free_id' = d.next_free_id
    /\ level_to_obj' = d.level_to_obj

NoResult == [op |-> "", raised |-> "", val |-> <<>>]

\* __parse has created the GedcomFile and reads its first line.
InitParsing ==
    /\ lines = <<>>
    /\ linenum = 0
    /\ level_to_obj = NewFile.level_to_obj
    /\ elems = NewFile.elems
    /\ root_elements = NewFile.root_elements
    /\ pointers = NewFile.pointers
    /\ next_free_id = NewFile.next_free_id
    /\ pc = "parsing"
    /\ result = NoResult
    /\ allocated = <<>>

\* The caller's state after a call that left the document as d.
Outcome(d, op, ok, val) ==
    /\ Store(d)
    /\ pc' = IF d.raised = "" THEN ok ELSE "failed"
    /\ result' = [op |-> op, raised |-> d.raised, val |-> val]

\* __parse reads one more line, drawn from the set Input, and runs the loop
\* body on it; an exception ends the parse and no document is returned.
\* Read is the number of lines the parse had read in the initial state.
ParseStep(Input, Read) ==
    /\ pc = "parsing"
    /\ Len(lines) < Read + MaxLines
    /\ \E raw \in Input :
          /\ lines' = Append(lines, raw)
          /\ linenum' = linenum + 1
          /\ Outcome(ParseLine(Doc, raw), "parse", "parsing", <<>>)
    /\ UNCHANGED allocated

\* The input is exhausted: __parse returns the GedcomFile.
ParseReturn ==
    /\ pc = "parsing"
    /\ pc' = "done"
    /\ result' = [op |-> "parse", raised |-> "", val |-> <<>>]
    /\ UNCHANGED <<parseVars, elems, root_elements, pointers, next_free_id, allocated>>

\* The caller serializes the parsed document and parses the lines again:
\* __parse(D.gedcom_lines()).  D itself is normalized by gedcom_lines.
Reparsed(d) ==
    Outcome(d, "roundtrip", "reparsed", [out |-> DocLines(d), reparsed |-> Parse(DocLines(d))])

RoundTrip ==
    /\ pc = "done"
    /\ Reparsed(gedcom_lines(Doc))
    /\ UNCHANGED <<lines, linenum, allocated>>

\* ------------------------------------------------- the parser's specification

Sp == <<" ">>

I1 == <<"@", "I", "1", "@">>

\* The raw lines the parser is fed: records with and without an id, a header
\* and a trailer, values with inner and leading spaces, a level written with
\* a leading zero, trailing whitespace, a blank line and a malformed line.
ParseInput ==
    { <<"0">> \o Sp \o HEAD,
      <<"0">> \o Sp \o I1 \o Sp \o INDI,
      <<"0">> \o Sp \o TRLR \o <<"\t">>,
      <<"0", "1">> \o Sp \o NAME \o Sp \o <<" ", "x", " ", "y", " ">>,
      <<"1">> \o Sp \o I1 \o Sp \o NOTE,
      <<"2">> \o Sp \o TYPE \o Sp \o <<"a", "k", "a">>,
      <<" ">>,
      <<"1">> \o NAME }

ParseLines == ParseStep(ParseInput, 0)

NextParse == ParseLines \/ ParseReturn \/ RoundTrip

SpecParse == InitParsing /\ [][NextParse]_vars

\* ----------------------------------------------------- the input, as the claims read it

\* The non-blank lines read so far, stripped and matched against the grammar.
Matched ==
    LET nonblank == SelectSeq(lines, LAMBDA raw : Strip(raw) /= <<>>)
    IN  [i \in 1..Len(nonblank) |-> LineMatch(Strip(nonblank[i]))]

LevelOf(m) == ParseInt(m.level)

\* An element of level n is open at line i when a line j < i has level n and
\* every line between them has a greater level.
OpenAt(ms, i, n) ==
    \E j \in 1..(i - 1) :
        /\ LevelOf(ms[j]) = n
        /\ \A k \in (j + 1)..(i - 1) : LevelOf(ms[k]) > n

\* Every line of level n > 0 follows an open line of level n - 1.
WellNested(ms) ==
    \A i \in 1..Len(ms) : LevelOf(ms[i]) > 0 => OpenAt(ms, i, LevelOf(ms[i]) - 1)

\* No id is carried by two lines.
UniqueIds(ms) ==
    \A i, j \in 1..Len(ms) : (i /= j /\ ms[i].id /= None) => ms[i].id /= ms[j].id

WellFormedInput ==
    /\ \A i \in 1..Len(Matched) : Matched[i].ok
    /\ UniqueIds(Matched)
    /\ WellNested(Matched)

\* The subtree of element e as a value: its line fields and, in order, its
\* children's subtrees.  Two documents have the same pre-order sequence of
\* (level, id, tag, value), nesting and sibling order iff their roots'
\* subtrees are equal.
RECURSIVE Tree(_, _)
Tree(h, e) ==
    [level    |-> h[e].level,
     id       |-> h[e].id,
     tag      |-> h[e].tag,
     value    |-> h[e].value,
     children |-> [i \in 1..Len(h[e].child_elements) |-> Tree(h, h[e].child_elements[i])]]

Trees(d) == [i \in 1..Len(d.root_elements) |-> Tree(d.elems, d.root_elements[i])]

\* The document d with every empty value '' read as an absent one.
EmptyAsAbsent(d) ==
    [d EXCEPT !.elems = [i \in 1..Len(@) |->
                            [@[i] EXCEPT !.value = IF @ = <<>> THEN None ELSE @]]]

\* C1 as stated: for a well-formed parsed document D, parse(serialize(D))
\* succeeds and its root subtrees equal those of D after D's header/trailer
\* normalization, every value verbatim.
C1_RoundTripVerbatim ==
    (pc = "reparsed" /\ WellFormedInput) =>
        /\ result.val.reparsed.raised = ""
        /\ Trees(result.val.reparsed) = Trees(Doc)

\* C1 amended: for a well-formed parsed document D, parse(serialize(D))
\* succeeds and its root subtrees equal those of D after D's header/trailer
\* normalization in level, id, tag, nesting and order, and in every value
\* except that an empty value '' (the one the synthesized HEAD and TRLR
\* roots carry) is read back as absent.
C1_RoundTrip ==
    (pc = "reparsed" /\ WellFormedInput) =>
        /\ result.val.reparsed.raised = ""
        /\ Trees(EmptyAsAbsent(result.val.reparsed)) = Trees(EmptyAsAbsent(Doc))

\* A well-formed document with an id, a nested child and a value that starts
\* with a space has been serialized, header and trailer added, and re-parsed.
C1_Witness ==
    /\ pc = "reparsed"
    /\ WellFormedInput
    /\ Len(Matched) >= 3
    /\ \E i \in 1..Len(Matched) : Matched[i].id /= None
    /\ \E i \in 1..Len(Matched) :
          /\ LevelOf(Matched[i]) = 1
          /\ Matched[i].value /= None
          /\ Matched[i].value[1] = " "
    /\ Len(root_elements) > Cardinality({i \in 1..Len(Matched) : LevelOf(Matched[i]) = 0})

\* C2 as stated: a line whose id an earlier line of the input already bound
\* aborts the parse, and no returned document holds two elements with the
\* same id.
C2_DuplicatePointerRejected ==
    /\ (pc \in {"parsing", "done"}) => UniqueIds(Matched)
    /\ (pc = "done") =>
          \A a, b \in 1..Len(elems) :
              (a /= b /\ elems[a].id /= None) => elems[a].id /= elems[b].id

\* The root of the tree element e is in, following parent_element.
RECURSIVE RootOf(_, _)
RootOf(h, e) ==
    IF h[e].parent_element = NoElement THEN e ELSE RootOf(h, h[e].parent_element)

\* C3 as stated: a line of level n > 0 with no open element of level n - 1
\* is rejected, and an accepted line of level n > 0 lands in the subtree of
\* the most recent preceding level-0 line.  (While parsing, elements are
\* created in line order, so that line's element is the greatest root index
\* below the element's.)
C3_OrphanRejected ==
    (pc \in {"parsing", "done"}) =>
        /\ WellNested(Matched)
        /\ \A e \in 1..Len(elems) :
              elems[e].level > 0 =>
                  \A r \in 1..Len(root_elements) :
                      (root_elements[r] < e
                         /\ \A q \in 1..Len(root_elements) :
                               root_elements[q] < e => root_elements[q] <= root_elements[r])
                      => RootOf(elems, e) = root_elements[r]

\* ------------------------------------------------ the document's specification

\* GedcomFile(): a caller holds a new, empty document.
InitDoc ==
    /\ lines = <<>>
    /\ linenum = 0
    /\ level_to_obj = NewFile.level_to_obj
    /\ elems = NewFile.elems
    /\ root_elements = NewFile.root_elements
    /\ pointers = NewFile.pointers
    /\ next_free_id = NewFile.next_free_id
    /\ pc = "ready"
    /\ result = NoResult
    /\ allocated = <<>>

\* The caller's state after a call on the document that left it as d and
\* was given (or returned) val; the caller catches what the call raises.
Called(d, op, val) ==
    /\ Store(d)
    /\ result' = [op |-> op, raised |-> d.raised, val |-> val]
    /\ allocated' = IF d.new_id /= None
                    THEN Append(allocated, [e |-> val, id |-> d.new_id])
                    ELSE allocated
    /\ pc' = pc
    /\ UNCHANGED <<lines, linenum>>

F2 == <<"@", "F", "2", "@">>

I2 == <<"@", "I", "2", "@">>

\* gedcom_file.element(tag, level=..., id=...): a new detached element,
\* its arguments drawn from the set Templates; the caller creates at most
\* MaxElems elements more than the lines that were parsed.
Create(Templates) ==
    /\ pc = "ready"
    /\ Len(elems) < Len(lines) + MaxElems
    /\ \E t \in Templates :
          Called([Doc EXCEPT !.elems = NewElement(@, t.level, t.tag, None, t.id,
                                                  NoElement, TRUE)],
                 "element", Len(elems) + 1)

\* The element e is in no tree and no root sequence yet.
Detached(e) ==
    /\ elems[e].parent = NoElement
    /\ \A i \in 1..Len(root_elements) : root_elements[i] /= e

\* The elements from e up to the root of its tree, following parent.
RECURSIVE Ancestors(_, _)
Ancestors(h, e) ==
    IF h[e].parent = NoElement THEN {e} ELSE {e} \cup Ancestors(h, h[e].parent)

\* p.add_child_element(c): the caller grafts a detached note c onto a
\* record or a note p that c is not above.
AddChild ==
    /\ pc = "ready"
    /\ \E p, c \in 1..Len(elems) :
          /\ elems[p].klass \in {"Individual", "Family", "Note"}
          /\ Detached(c)
          /\ elems[c].klass = "Note"
          /\ c \notin Ancestors(elems, p)
          /\ Called([Doc EXCEPT !.elems = add_child_element(@, p, c)],
                    "add_child_element", c)

\* gedcom_file.add_element(e), for a detached e.
AddRoot ==
    /\ pc = "ready"
    /\ \E e \in 1..Len(elems) :
          /\ Detached(e)
          /\ Called(add_element(Doc, e), "add_element", e)

\* gedcom_file.ensure_header_trailer()
EnsureHeaderTrailer ==
    /\ pc = "ready"
    /\ Called(ensure_header_trailer(Doc), "ensure_header_trailer", NoElement)

\* What the caller of SpecDoc creates: new records (level unset), with and
\* without an id of their own; records as a parser would hand them over
\* (level 0 and an id); a note.
RecordTemplates ==
    { [tag |-> INDI, level |-> NoLevel, id |-> None],
      [tag |-> FAM,  level |-> NoLevel, id |-> None],
      [tag |-> INDI, level |-> NoLevel, id |-> I2],
      [tag |-> INDI, level |-> 0,       id |-> I1],
      [tag |-> FAM,  level |-> 0,       id |-> F2],
      [tag |-> NOTE, level |-> NoLevel, id |-> None] }

CreateRecord == Create(RecordTemplates)

NextDoc == CreateRecord \/ AddChild \/ AddRoot

\* A caller that builds records and adds them to a new document.
SpecDoc == InitDoc /\ [][NextDoc]_vars

\* What the caller of SpecHeader creates: a new record, and a header, a
\* trailer and a record as a parser would hand them over.
RootTemplates ==
    { [tag |-> INDI, level |-> NoLevel, id |-> None],
      [tag |-> INDI, level |-> 0,       id |-> I1],
      [tag |-> HEAD, level |-> 0,       id |-> None],
      [tag |-> TRLR, level |-> 0,       id |-> None] }

CreateRoot == Create(RootTemplates)

NextHeader == CreateRoot \/ AddRoot \/ EnsureHeaderTrailer

\* A caller that adds roots to a new document and asks for its header and
\* trailer, in any order.
SpecHeader == InitDoc /\ [][NextHeader]_vars

\* ------------------------------------------------------- claims on the document

\* The number n of an id @<prefix><n>@.
IdNum(id) == ParseInt(SubSeq(id, 3, Len(id) - 1))

\* C5, in every state: each id the document has allocated is @I<n>@ for an
\* Individual and @F<n>@ for a Family, with n below the counter, and the
\* numbers of successive allocations are strictly increasing.
C5_AllocatedForm ==
    /\ \A i \in 1..Len(allocated) :
          /\ elems[allocated[i].e].klass \in {"Individual", "Family"}
          /\ \E n \in 1..(next_free_id - 1) :
                allocated[i].id =
                    <<"@", IF elems[allocated[i].e].klass = "Individual" THEN "I" ELSE "F">>
                        \o IntToStr(n) \o <<"@">>
    /\ \A i, j \in 1..Len(allocated) :
          i < j => IdNum(allocated[i].id) < IdNum(allocated[j].id)

\* C5, in every step: the counter never decreases, and an id is not a key of
\* the pointer table at the moment it is allocated.
C5_AllocationStep ==
    /\ next_free_id' >= next_free_id
    /\ Len(allocated') > Len(allocated) =>
          allocated'[Len(allocated')].id \notin DOMAIN pointers

\* C5: over any sequence of add_element calls, every allocated id has the
\* form @I<n>@ (Individual) or @F<n>@ (Family), is not in the pointer table
\* when allocated, successive numbers n strictly increase and next_free_id
\* never decreases.
C5_IdAllocation == [](C5_AllocatedForm) /\ [][C5_AllocationStep]_vars

\* An Individual and a Family have been given ids, the first after the scan
\* skipped a number taken in the pointer table.
C5_Witness ==
    /\ Len(allocated) >= 2
    /\ IdNum(allocated[1].id) > 1
    /\ \E i, j \in 1..Len(allocated) :
          /\ elems[allocated[i].e].klass = "Individual"
          /\ elems[allocated[j].e].klass = "Family"

\* C6 as stated: add_element on an Individual or Family whose level is unset
\* sets its level to 0, re-levels its subtree, allocates a new id iff the
\* element has none (an id it carries is kept), registers the element under
\* its id and appends it to the root sequence.
C6_AddRootStep ==
    \A e \in 1..Len(elems) :
        (/\ result'.op = "add_element"
         /\ result'.val = e
         /\ elems[e].level = NoLevel
         /\ elems[e].klass \in {"Individual", "Family"})
        =>
        /\ elems'[e].level = 0
        /\ \A c \in 1..Len(elems') :
              (c /= e /\ e \in Ancestors(elems', c)) =>
                  elems'[c].level = elems'[elems'[c].parent].level + 1
        /\ elems[e].id = None => (elems'[e].id /= None /\ elems'[e].id \notin DOMAIN pointers)
        /\ elems[e].id /= None => elems'[e].id = elems[e].id
        /\ elems'[e].id \in DOMAIN pointers'
        /\ pointers'[elems'[e].id] = e
        /\ root_elements' = Append(root_elements, e)

C6_AddRoot == [][C6_AddRootStep]_vars

\* C7, in every state that follows a call of ensure_header_trailer: the
\* first root's tag is HEAD, the last root's is TRLR, and a second call
\* changes nothing.
C7_EnsuredState ==
    result.op = "ensure_header_trailer" =>
        /\ Len(root_elements) >= 2
        /\ elems[root_elements[1]].tag = HEAD
        /\ elems[root_elements[Len(root_elements)]].tag = TRLR
        /\ ensure_header_trailer(Doc) = Doc

\* C7, in every call on an empty document: the roots become exactly one
\* HEAD subtree followed by exactly one TRLR element.
C7_EmptyStep ==
    (result'.op = "ensure_header_trailer" /\ root_elements = <<>>) =>
        /\ Len(root_elements') = 2
        /\ elems'[root_elements'[1]].tag = HEAD
        /\ elems'[root_elements'[1]].child_elements /= <<>>
        /\ elems'[root_elements'[2]].tag = TRLR
        /\ elems'[root_elements'[2]].child_elements = <<>>

\* C7: ensure_header_trailer is idempotent on every document; after one call
\* the first root is HEAD and the last is TRLR; on an empty document it
\* produces one HEAD subtree followed by one TRLR.
C7_EnsureHeaderTrailer == [](C7_EnsuredState) /\ [][C7_EmptyStep]_vars

\* ensure_header_trailer has added a header and a trailer around a record
\* the document gave an id to.
C7_Witness ==
    /\ result.op = "ensure_header_trailer"
    /\ Len(root_elements) >= 3
    /\ elems[root_elements[1]].value = <<>>
    /\ \E i \in 1..Len(root_elements) :
          /\ elems[root_elements[i]].klass = "Individual"
          /\ \E k \in 1..Len(allocated) : allocated[k].e = root_elements[i]

\* ------------------------------------------------------- the views' specifications

\* A caller reads a view of element arg of the parsed document: the document
\* is left as it is, the caller holds the value returned or the exception.
Query(op, arg, r) ==
    /\ pc = "done"
    /\ result' = [op |-> op, raised |-> r.raised, val |-> [arg |-> arg, ret |-> r.val]]
    /\ UNCHANGED <<parseVars, elems, root_elements, pointers, next_free_id, pc, allocated>>

\* An individual's record: names with and without a value, a name type and
\* name parts.
NameInput ==
    { <<"0">> \o Sp \o I1 \o Sp \o INDI,
      <<"1">> \o Sp \o NAME \o Sp \o <<"a", " ", "/", "b", "/">>,
      <<"1">> \o Sp \o NAME,
      <<"2">> \o Sp \o TYPE \o Sp \o <<"A", "k", "a">>,
      <<"2">> \o Sp \o GIVN \o Sp \o <<"c">>,
      <<"2">> \o Sp \o SURN \o Sp \o <<"d">> }

ParseNames == ParseStep(NameInput, 0)

GetItem ==
    \E e \in 1..Len(elems), key \in {NAME, TYPE} :
        Query("getitem", [e |-> e, key |-> key], getitem(elems, e, key))

Aka ==
    \E e \in 1..Len(elems) :
        /\ elems[e].klass = "Individual"
        /\ Query("aka", e, aka(elems, e))

NextIndividual == ParseNames \/ ParseReturn \/ GetItem \/ Aka

SpecIndividual == InitParsing /\ [][NextIndividual]_vars

\* A note record: with and without a value, continued and concatenated
\* lines with and without a value, and a child of another tag.
NoteInput ==
    { <<"0">> \o Sp \o NOTE \o Sp \o <<"H", "i">>,
      <<"0">> \o Sp \o NOTE,
      <<"1">> \o Sp \o CONT \o Sp \o <<"W">>,
      <<"1">> \o Sp \o CONC \o Sp \o <<"!">>,
      <<"1">> \o Sp \o CONT,
      <<"1">> \o Sp \o SOUR \o Sp \o <<"x">> }

ParseNotes == ParseStep(NoteInput, 0)

FullText ==
    \E e \in 1..Len(elems) :
        /\ elems[e].klass = "Note"
        /\ Query("full_text", e, full_text(elems, e))

NextNote == ParseNotes \/ ParseReturn \/ FullText

SpecNote == InitParsing /\ [][NextNote]_vars

F1 == <<"@", "F", "1", "@">>

I3 == <<"@", "I", "3", "@">>

\* A child of family F1, whose husband is I2 and whose wife is I3.
FamilyBase ==
    << <<"0">> \o Sp \o I1 \o Sp \o INDI,
       <<"1">> \o Sp \o FAMC \o Sp \o F1,
       <<"0">> \o Sp \o F1 \o Sp \o FAM,
       <<"1">> \o Sp \o HUSB \o Sp \o I2,
       <<"1">> \o Sp \o WIFE \o Sp \o I3 >>

\* The records of the two partners, each with or without a sex.
FamilyInput ==
    { <<"0">> \o Sp \o I2 \o Sp \o INDI,
      <<"0">> \o Sp \o I3 \o Sp \o INDI,
      <<"1">> \o Sp \o SEX \o Sp \o <<"M">>,
      <<"1">> \o Sp \o SEX \o Sp \o <<"f">> }

\* __parse has read the lines of FamilyBase.
ParsingFrom(d, read) ==
    /\ lines = read
    /\ linenum = Len(read)
    /\ level_to_obj = d.level_to_obj
    /\ elems = d.elems
    /\ root_elements = d.root_elements
    /\ pointers = d.pointers
    /\ next_free_id = d.next_free_id
    /\ pc = "parsing"
    /\ result = NoResult
    /\ allocated = <<>>

InitFamily == ParsingFrom(Parse(FamilyBase), FamilyBase)

ParseFamily == ParseStep(FamilyInput, Len(FamilyBase))

Father ==
    \E e \in 1..Len(elems) :
        /\ elems[e].klass = "Individual"
        /\ Query("father", e, father(Doc, e))

Mother ==
    \E e \in 1..Len(elems) :
        /\ elems[e].klass = "Individual"
        /\ Query("mother", e, mother(Doc, e))

NextFamily == ParseFamily \/ ParseReturn \/ Father \/ Mother

SpecFamily == InitFamily /\ [][NextFamily]_vars

\* ------------------------------------------------------------ the views' claims

\* C4: get_single(tag) on an element returns the child with that tag when
\* exactly one child has it, fails with MissingTag (IndexError) when no child
\* has it, fails when two or more children have it, and never returns a
\* collection.
C4_GetSingle ==
    result.op = "getitem" =>
        LET cs == get_list(elems, result.val.arg.e, result.val.arg.key)
        IN  /\ Len(cs) = 0 => result.raised = "IndexError"
            /\ Len(cs) = 1 => /\ result.raised = ""
                             /\ result.val.ret.kind = "element"
                             /\ result.val.ret.e = cs[1]
            /\ Len(cs) > 1 => result.raised /= ""
            /\ result.raised = "" => result.val.ret.kind /= "list"

TextOf(v) == IF v = None THEN <<>> ELSE v

\* The text the children from the i-th on contribute: a newline and the
\* value for CONT, the value alone for CONC.
RECURSIVE Continuation(_, _, _)
Continuation(h, cs, i) ==
    IF i > Len(cs) THEN <<>>
    ELSE (IF h[cs[i]].tag = CONT THEN <<"\n">> ELSE <<>>)
         \o TextOf(h[cs[i]].value) \o Continuation(h, cs, i + 1)

\* C8: full_text of a NOTE whose children are all CONT or CONC is the note's
\* value (empty when it has none) followed by each child's contribution in
\* document order; with a child of another tag it fails with UnexpectedTag
\* (ValueError).
C8_FullText ==
    result.op = "full_text" =>
        LET cs == elems[result.val.arg].child_elements
        IN  IF \A i \in 1..Len(cs) : elems[cs[i]].tag \in {CONT, CONC}
            THEN /\ result.raised = ""
                 /\ result.val.ret = TextOf(elems[result.val.arg].value)
                                         \o Continuation(elems, cs, 1)
            ELSE result.raised = "ValueError"

\* A NAME element has a TYPE child whose value is "aka" in any case.
IsAkaName(h, n) ==
    \E i \in 1..Len(h[n].child_elements) :
        /\ h[h[n].child_elements[i]].tag = TYPE
        /\ h[h[n].child_elements[i]].value /= None
        /\ LowerStr(h[h[n].child_elements[i]].value) = <<"a", "k", "a">>

AkaNames(h, e) == SelectSeq(get_list(h, e, NAME), LAMBDA n : IsAkaName(h, n))

\* C9: aka of an individual with any number of NAME children returns, in
\* document order, the (given, family) pair of every NAME child whose TYPE
\* is "aka" case-insensitively (whenever each such name has a pair to
\* extract), and the empty list when there is none.
C9_Aka ==
    result.op = "aka" =>
        LET q == AkaNames(elems, result.val.arg)
        IN  (\A i \in 1..Len(q) : NameParts(elems, q[i]).raised = "") =>
                /\ result.raised = ""
                /\ result.val.ret = [i \in 1..Len(q) |-> NameParts(elems, q[i]).val]

\* A parent records the sex written with the given lower-case letter.
HasSex(h, p, letter) ==
    \E i \in 1..Len(h[p].child_elements) :
        /\ h[h[p].child_elements[i]].tag = SEX
        /\ h[h[p].child_elements[i]].value /= None
        /\ LowerStr(h[h[p].child_elements[i]].value) = <<letter>>

\* What the claim has father (letter "m") or mother (letter "f") do, given
\* the parents.
ParentAsClaimed(ps, letter) ==
    LET m == SelectSeq(ps, LAMBDA p : HasSex(elems, p, letter))
    IN  /\ Len(m) = 0 => result.raised = "" /\ result.val.ret = NoElement
        /\ Len(m) = 1 => result.raised = "" /\ result.val.ret = m[1]
        /\ Len(m) > 1 => result.raised = "NotImplementedError"

\* C10: whenever the parents of an individual can be looked up, father
\* (mother) returns the one parent whose sex is M (F) in any case, None when
\* no parent has that sex -- also when a parent records no sex or there is
\* no FAMC child -- and fails with MultipleParents (NotImplementedError)
\* when several have it.
C10_FatherMother ==
    result.op \in {"father", "mother"} =>
        (parents(Doc, result.val.arg).raised = "" =>
            ParentAsClaimed(parents(Doc, result.val.arg).val,
                            IF result.op = "father" THEN "m" ELSE "f"))

\* ------------------------------------------- failing calls on a parsed document

\* __parse returns the GedcomFile to a caller that goes on to change it.
HandOver ==
    /\ pc = "parsing"
    /\ pc' = "ready"
    /\ result' = [op |-> "parse", raised |-> "", val |-> <<>>]
    /\ UNCHANGED <<parseVars, elems, root_elements, pointers, next_free_id, allocated>>

\* The id scan tries the candidates of range(1, 1000000).  A document with
\* that many ids taken is out of the reach of the model, so the
\* specification of the failing calls runs the same scan over
\* range(1, ShortScanEnd): its range runs out after ShortScanEnd - 1 taken
\* candidates.
ShortScanEnd == 4

\* A record whose id is the first candidate of the scan.
IdBase == << <<"0">> \o Sp \o I1 \o Sp \o INDI >>

\* Records whose ids are the next candidates.
IdInput ==
    { <<"0">> \o Sp \o I2 \o Sp \o INDI,
      <<"0">> \o Sp \o I3 \o Sp \o INDI }

\* __parse has read the line of IdBase.
InitFailing == ParsingFrom(Parse(IdBase), IdBase)

ParseIds == ParseStep(IdInput, Len(IdBase))

\* What the caller creates: a new record and a new note, levels unset.
DraftTemplates ==
    { [tag |-> INDI, level |-> NoLevel, id |-> None],
      [tag |-> NOTE, level |-> NoLevel, id |-> None] }

CreateDraft == Create(DraftTemplates)

\* gedcom_file.add_element(e), for a detached e, the scan over
\* range(1, ShortScanEnd).
AddRootShort ==
    /\ pc = "ready"
    /\ \E e \in 1..Len(elems) :
          /\ Detached(e)
          /\ Called(add_element_within(Doc, e, ShortScanEnd), "add_element", e)

\* The sexes a caller passes to set_sex: a valid one in lower case and an
\* invalid one.
SexInput == { <<"f">>, <<"x">> }

\* e.set_sex(sex) on an individual, the sex drawn from Sexes; the SEX
\* element it may create counts among the elements the caller creates.
SetSexOf(Sexes) ==
    /\ pc = "ready"
    /\ \E e \in 1..Len(elems), sex \in Sexes :
          /\ elems[e].klass = "Individual"
          /\ Contains(elems, e, SEX) \/ Len(elems) < Len(lines) + MaxElems
          /\ Called(set_sex(Doc, e, sex), "set_sex", e)

SetSex == SetSexOf(SexInput)

NextFailing == ParseIds \/ HandOver \/ CreateDraft \/ AddRootShort \/ SetSex

SpecFailing == InitFailing /\ [][NextFailing]_vars

\* A step is a call of add_root or set_sex that failed with one of the
\* errors C11 names: UnsupportedRootType and InvalidSex (TypeError),
\* IdSpaceExhausted (Exception).
FailedCall ==
    /\ result'.op \in {"add_element", "set_sex"}
    /\ result'.raised \in {"TypeError", "Exception"}

\* C11: a call of add_root or set_sex that fails leaves the root sequence,
\* the pointer table, the id counter and the fields of the element passed in
\* exactly as they were before the call.
C11_FailureAtomic ==
    [][FailedCall =>
          /\ root_elements' = root_elements
          /\ pointers' = pointers
          /\ next_free_id' = next_free_id
          /\ elems'[result'.val] = elems[result'.val]]_vars

\* --------------------------------------------- changes to a parsed document

\* A record, and a sex line for it.
RecordInput ==
    { <<"0">> \o Sp \o I1 \o Sp \o INDI,
      <<"1">> \o Sp \o SEX \o Sp \o <<"M">> }

ParseRecords == ParseStep(RecordInput, 0)

\* What the caller creates: a new record and a new note, levels unset, and
\* a record as a parser would hand it over (level 0 and an id).
ChangeTemplates ==
    { [tag |-> INDI, level |-> NoLevel, id |-> None],
      [tag |-> NOTE, level |-> NoLevel, id |-> None],
      [tag |-> INDI, level |-> 0,       id |-> I1] }

CreateChange == Create(ChangeTemplates)

NextChange == ParseRecords \/ HandOver \/ CreateChange \/ AddChild \/ AddRoot \/ SetSex

\* A caller that parses a text and then changes the document.
SpecChange == InitParsing /\ [][NextChange]_vars

\* The elements of the subtree of e, following child_elements.
RECURSIVE Subtree(_, _)
Subtree(h, e) ==
    {e} \cup UNION { Subtree(h, h[e].child_elements[i]) : i \in 1..Len(h[e].child_elements) }

\* The elements reachable from the root sequence.
Reachable == UNION { Subtree(elems, root_elements[i]) : i \in 1..Len(root_elements) }

\* Every key of the pointer table maps to an element with that id, and
\* every reachable element with an id is the one stored under its id (so no
\* two reachable elements share an id).
PointersConsistent ==
    /\ \A k \in DOMAIN pointers : elems[pointers[k]].id = k
    /\ \A e \in Reachable :
          elems[e].id /= None =>
              /\ elems[e].id \in DOMAIN pointers
              /\ pointers[elems[e].id] = e
    /\ \A e1, e2 \in Reachable :
          (e1 /= e2 /\ elems[e1].id /= None) => elems[e1].id /= elems[e2].id

\* C12: in every state reached by parsing and then any sequence of
\* add_root, add_child and set_sex calls the pointer table is consistent
\* with the elements' ids -- stated here for the well-formed inputs alone,
\* where the parser itself has bound no id twice.
C12_PointerTable ==
    (pc = "ready" /\ WellFormedInput) => PointersConsistent

\* ------------------------------------------------- levels of a changed document

\* What the caller grafts: a new note, its level unset.
NoteTemplates == { [tag |-> NOTE, level |-> NoLevel, id |-> None] }

CreateNote == Create(NoteTemplates)

\* e.set_levels_downward() on a record or a note
SetLevelsDownward ==
    /\ pc = "ready"
    /\ \E e \in 1..Len(elems) :
          /\ elems[e].tag \in {INDI, NOTE}
          /\ Called([Doc EXCEPT !.elems = set_levels_downward(@, e).heap,
                                !.raised = set_levels_downward(elems, e).raised],
                    "set_levels_downward", e)

\* The caller serializes the document: gedcom_lines() normalizes it.
Serialize ==
    /\ pc = "ready"
    /\ Called(gedcom_lines(Doc), "gedcom_lines", NoElement)

\* The texts the document is parsed from: a record with a sex line, and a
\* record without one that has a note two levels deep.
LevelTexts ==
    { << <<"0">> \o Sp \o I1 \o Sp \o INDI,
         <<"1">> \o Sp \o SEX \o Sp \o <<"M">> >>,
      << <<"0">> \o Sp \o I1 \o Sp \o INDI,
         <<"1">> \o Sp \o NOTE \o Sp \o <<"x">>,
         <<"2">> \o Sp \o CONT \o Sp \o <<"y">> >> }

\* __parse has read one of the texts.
InitLevels == \E text \in LevelTexts : ParsingFrom(Parse(text), text)

\* e.set_sex("f")
SetSexF == SetSexOf({ <<"f">> })

NextLevels == HandOver \/ CreateNote \/ AddChild \/ SetSexF \/ SetLevelsDownward \/ Serialize

\* A caller that parses a text, grafts notes and sex lines onto the document,
\* re-levels subtrees and serializes, in any order.
SpecLevels == InitLevels /\ [][NextLevels]_vars

\* In the subtree of e on the heap h every child's level is its parent's
\* level + 1, and its parent is the element that lists it.
Levelled(h, e) ==
    \A p \in Subtree(h, e) :
        \A i \in 1..Len(h[p].child_elements) :
            /\ h[h[p].child_elements[i]].level = h[p].level + 1
            /\ h[h[p].child_elements[i]].parent = p

\* After serialize() every root has level 0 and every other reachable
\* element its parent's level + 1.
C13_SerializedLevels ==
    result.op = "gedcom_lines" =>
        \A i \in 1..Len(root_elements) :
            /\ elems[root_elements[i]].level = 0
            /\ Levelled(elems, root_elements[i])

\* set_levels_downward on an element whose level is unset fails with
\* InvalidLevel (TypeError); on one whose level is an integer it leaves the
\* element's level as it was and its subtree levelled.
C13_RelevelStep ==
    result'.op = "set_levels_downward" =>
        IF elems[result'.val].level = NoLevel
        THEN result'.raised = "TypeError"
        ELSE /\ result'.raised = ""
             /\ elems'[result'.val].level = elems[result'.val].level
             /\ Levelled(elems', result'.val)

\* C13: after set_levels_downward on an element with a level every element
\* of its subtree has its parent's level + 1, whatever the levels were
\* before; after serialize() every root has level 0 and every other
\* reachable element its parent's level + 1, also after grafts by add_child
\* and set_sex; set_levels_downward fails when the element's level is unset.
C13_Levels == [](C13_SerializedLevels) /\ [][C13_RelevelStep]_vars

\* A serialized document in which a note that was grafted under a grafted
\* note or sex line stands at level 2, and an individual carries a sex line.
C13_Witness ==
    /\ result.op = "gedcom_lines"
    /\ \E e \in Reachable : elems[e].tag = NOTE /\ elems[e].level = 2
    /\ \E e \in Reachable : elems[e].tag = SEX /\ elems[e].level = 1

====
